---- MODULE Spec2Model ----
(***************************************************************************)
(* Weather dashboard: the observation store (database.py, class            *)
(* WeatherDatabase over one SQLite table weather_data) and the mock        *)
(* observation synthesizer (weather_api.py, WeatherAPI).                   *)
(*                                                                         *)
(* Units.  Time is counted in minutes since 2026-01-01 00:00 UTC; the      *)
(* seconds field of every clock reading is 00.  Temperature and wind speed *)
(* are counted in tenths (the code rounds both to one decimal).            *)
(***************************************************************************)
EXTENDS Integers, Sequences, FiniteSets, TLC

VARIABLES
    schema,     \* names of the table and index that exist in the database file
    rows,       \* the rows of weather_data
    seq,        \* sqlite_sequence of weather_data: the largest id ever assigned
    clock,      \* the wall clock, UTC minutes
    tz,         \* offset of the process's local time from UTC, minutes
    faults,     \* whether statements on the database file can raise sqlite3.Error
    calls,      \* calls made so far to the operations that add rows
    ret,        \* outcome of the last operation, as its caller sees it
    weather     \* what WeatherAPI.get_current_weather returned last, if called

vars == <<schema, rows, seq, clock, tz, faults, calls, ret, weather>>

-----------------------------------------------------------------------------
(* Bounds of the exploration.                                              *)

MaxTicks == 1          \* clock ticks explored
MaxCalls == 1          \* calls to the row-adding operations explored
MaxDays == 1           \* largest `days` / `days_old` argument
MaxRecordsPerDay == 4  \* largest `records_per_day` argument

MinutesPerDay == 24 * 60
TickStep == 12 * 60
\* 2026-11-03 21:30 UTC
StartClock == 306 * MinutesPerDay + 21 * 60 + 30
TZOffsets == {0}
PandasVersions == {1, 2}

-----------------------------------------------------------------------------
(* Clock readings and timestamp text.                                      *)

\* A broken-down clock reading (datetime fields): day number, hour, minute.
DateTime(t) ==
    [day |-> t \div MinutesPerDay,
     hour |-> (t % MinutesPerDay) \div 60,
     minute |-> t % 60]

\* First day (0-based, within the year) of each month of a 365-day year.
MonthStart == <<0, 31, 59, 90, 120, 151, 181, 212, 243, 273, 304, 334>>

\* datetime.now().month
MonthOf(dt) ==
    LET doy == dt.day % 365
    IN  CHOOSE m \in 1..12 :
            /\ MonthStart[m] <= doy
            /\ (m = 12 \/ doy < MonthStart[m + 1])

\* Timestamp text "YYYY-MM-DD HH:MM:SS[.ffffff]": zero-padded fields, so the
\* text is the tuple of its fields; the last component is 1 when the text
\* carries a fractional-seconds suffix and 0 when it does not.
\* CURRENT_TIMESTAMP and datetime('now', ...) produce the form without suffix.
SqlText(t) == <<DateTime(t).day, DateTime(t).hour, DateTime(t).minute, 0>>

\* sqlite3's default adapter for datetime objects: isoformat(" "), which
\* carries the microseconds of the reading.
AdaptDatetime(dt) == <<dt.day, dt.hour, dt.minute, 1>>

\* strftime('%Y-%m-%d %H:%M:%S')
Strftime(dt) == <<dt.day, dt.hour, dt.minute, 0>>

\* SQLite compares TEXT values byte by byte (BINARY collation): field by
\* field, and a text that extends another one is the greater.
RECURSIVE LexLess(_, _)
LexLess(a, b) ==
    IF b = <<>> THEN FALSE
    ELSE IF a = <<>> THEN TRUE
    ELSE IF Head(a) # Head(b) THEN Head(a) < Head(b)
    ELSE LexLess(Tail(a), Tail(b))

TextLess(a, b) == LexLess(a, b)
TextGeq(a, b) == ~LexLess(a, b)

\* datetime('now', '-' || days || ' days')
Cutoff(days) == SqlText(clock - days * MinutesPerDay)

\* datetime.now(): the local wall clock
LocalNow == DateTime(clock + tz)

-----------------------------------------------------------------------------
(* City names.                                                             *)

\* generate_sample_data's city list, in the order of the code
cities == <<"New York", "London", "Tokyo", "Sydney", "Paris", "Berlin", "Mumbai">>

CitySet == {cities[i] : i \in 1..Len(cities)}

\* a city outside every table
UnknownCity == "Atlantis"

AllCities == CitySet \cup {UnknownCity}

\* the bytes of a city name
CityBytes(c) ==
    IF c = "New York" THEN <<78, 101, 119, 32, 89, 111, 114, 107>> ELSE
    IF c = "London" THEN <<76, 111, 110, 100, 111, 110>> ELSE
    IF c = "Tokyo" THEN <<84, 111, 107, 121, 111>> ELSE
    IF c = "Sydney" THEN <<83, 121, 100, 110, 101, 121>> ELSE
    IF c = "Paris" THEN <<80, 97, 114, 105, 115>> ELSE
    IF c = "Berlin" THEN <<66, 101, 114, 108, 105, 110>> ELSE
    IF c = "Mumbai" THEN <<77, 117, 109, 98, 97, 105>> ELSE
    <<65, 116, 108, 97, 110, 116, 105, 115>>

CityLess(a, b) == LexLess(CityBytes(a), CityBytes(b))

-----------------------------------------------------------------------------
(* The observation synthesizer, WeatherAPI._get_mock_weather_data.         *)

\* seasonal band, whole degrees
base_temp_range(month) ==
    IF month \in {12, 1, 2} THEN <<0 - 10, 10>>
    ELSE IF month \in {3, 4, 5} THEN <<5, 25>>
    ELSE IF month \in {6, 7, 8} THEN <<15, 35>>
    ELSE <<5, 20>>

\* city_adjustments.get(city, {"temp_adjust": 0, "humidity_adjust": 0})
city_adjustments(city) ==
    IF city = "New York" THEN [temp_adjust |-> 0, humidity_adjust |-> 5]
    ELSE IF city = "London" THEN [temp_adjust |-> 0 - 5, humidity_adjust |-> 10]
    ELSE IF city = "Tokyo" THEN [temp_adjust |-> 3, humidity_adjust |-> 15]
    ELSE IF city = "Sydney" THEN [temp_adjust |-> 8, humidity_adjust |-> 0 - 5]
    ELSE IF city = "Paris" THEN [temp_adjust |-> 0 - 2, humidity_adjust |-> 0]
    ELSE IF city = "Berlin" THEN [temp_adjust |-> 0 - 3, humidity_adjust |-> 0 - 2]
    ELSE IF city = "Mumbai" THEN [temp_adjust |-> 15, humidity_adjust |-> 25]
    ELSE [temp_adjust |-> 0, humidity_adjust |-> 0]

\* the keys of weather_weights, in the order of the code
Descriptions == <<"Clear", "Cloudy", "Rain", "Snow", "Fog", "Thunderstorm">>

\* weights in hundredths
weather_weights ==
    [d \in {Descriptions[i] : i \in 1..Len(Descriptions)} |->
        IF d = "Clear" THEN 30
        ELSE IF d = "Cloudy" THEN 40
        ELSE IF d = "Rain" THEN 15
        ELSE 5]

\* random.choices draws any key of positive weight
DescriptionDraws == {d \in DOMAIN weather_weights : weather_weights[d] > 0}

\* weather_patterns[description] for a seasonal band b and a city bias adj
weather_patterns(description, b, adj) ==
    LET t == adj.temp_adjust
        h == adj.humidity_adjust
    IN  IF description = "Clear" THEN
            [temp_range |-> <<b[1] + 5 + t, b[2] + t>>,
             humidity_range |-> <<30 + h, 60 + h>>,
             pressure_range |-> <<1010, 1030>>,
             wind_range |-> <<0, 10>>]
        ELSE IF description = "Cloudy" THEN
            [temp_range |-> <<b[1] + t, b[2] - 5 + t>>,
             humidity_range |-> <<50 + h, 80 + h>>,
             pressure_range |-> <<1000, 1020>>,
             wind_range |-> <<5, 15>>]
        ELSE IF description = "Rain" THEN
            [temp_range |-> <<b[1] - 2 + t, b[2] - 8 + t>>,
             humidity_range |-> <<70 + h, 95 + h>>,
             pressure_range |-> <<980, 1010>>,
             wind_range |-> <<10, 25>>]
        ELSE IF description = "Snow" THEN
            [temp_range |-> <<0 - 10 + t, 5 + t>>,
             humidity_range |-> <<60 + h, 85 + h>>,
             pressure_range |-> <<990, 1020>>,
             wind_range |-> <<5, 20>>]
        ELSE IF description = "Fog" THEN
            [temp_range |-> <<b[1] + t, b[2] - 3 + t>>,
             humidity_range |-> <<80 + h, 98 + h>>,
             pressure_range |-> <<1005, 1025>>,
             wind_range |-> <<0, 5>>]
        ELSE
            [temp_range |-> <<b[1] + t, b[2] - 5 + t>>,
             humidity_range |-> <<75 + h, 98 + h>>,
             pressure_range |-> <<970, 1005>>,
             wind_range |-> <<15, 35>>]

\* the pattern _get_mock_weather_data uses for a city at a local time
PatternOf(city, now, description) ==
    weather_patterns(description, base_temp_range(MonthOf(now)),
                     city_adjustments(city))

\* One run of the random generator through _get_mock_weather_data: the
\* description chosen and, for each numeric field, the point of its range
\* that was drawn.  u is the position inside a range, 0 = low end and
\* 1 = high end; humidity is drawn as an offset from the low end.
\* random.uniform followed by round(x, 1): a value in tenths
UniformTenths(range, u) == 10 * range[1] + u * 10 * (range[2] - range[1])

\* random.randint(lo, hi): lo + k for some k in 0..hi-lo
RandInt(range, k) == range[1] + k

get_mock_weather_data(city, now, d) ==
    LET pattern == PatternOf(city, now, d.description)
    IN  [city |-> city,
         temperature |-> UniformTenths(pattern.temp_range, d.t),
         humidity |-> RandInt(pattern.humidity_range, d.h),
         pressure |-> RandInt(pattern.pressure_range, d.p),
         wind_speed |-> UniformTenths(pattern.wind_range, d.w),
         description |-> d.description,
         timestamp |-> Strftime(now)]

\* the draws explored for a call: every description; for humidity the two
\* ends and the middle of its range; for the other fields the two ends
DrawsFor(city, now) ==
    UNION {
        LET pattern == PatternOf(city, now, desc)
            hspan == pattern.humidity_range[2] - pattern.humidity_range[1]
            pspan == pattern.pressure_range[2] - pattern.pressure_range[1]
        IN  {[description |-> desc, t |-> u, h |-> k, p |-> u * pspan, w |-> 1 - u] :
                u \in {0, 1}, k \in {0, hspan \div 2, hspan}}
        : desc \in DescriptionDraws }

\* The k-th draw of the generator started from a seed: the bulk loader makes
\* one such draw per record.
SeededDraw(city, now, seed, k) ==
    LET desc == Descriptions[((seed + k) % Len(Descriptions)) + 1]
        pattern == PatternOf(city, now, desc)
        u == (seed + k) % 2
    IN  [description |-> desc,
         t |-> u,
         h |-> u * (pattern.humidity_range[2] - pattern.humidity_range[1]),
         p |-> u * (pattern.pressure_range[2] - pattern.pressure_range[1]),
         w |-> 1 - u]

\* random.randint(0, 59) for the k-th record
SeededMinute(seed, k) == (17 * seed + 59 * k) % 60

-----------------------------------------------------------------------------
(* The store: values and queries.                                          *)

\* Python's None
None == "None"

\* Python's {}
EmptyDict == [k \in {} |-> None]

TableName == "weather_data"
IndexName == "idx_city_timestamp"

\* the columns of weather_data
Columns ==
    {"id", "city", "temperature", "humidity", "pressure", "wind_speed",
     "description", "timestamp"}

\* pd.DataFrame(): no columns, no records
EmptyFrame == [columns |-> {}, records |-> <<>>]

\* what the caller of an operation sees, and what the operation left behind:
\* failed   - the database step of the operation raised
\* outcome  - "return" or "raise"
\* value    - the value returned (None when the operation raised)
\* conns    - connections the operation opened and did not close
\* at       - the clock when the operation ran
Result(op, args, failed, outcome, value, conns) ==
    [op |-> op, args |-> args, failed |-> failed, outcome |-> outcome,
     value |-> value, conns |-> conns, at |-> clock]

\* a CREATE TABLE that replaces the table it finds
CreateTableAnew(R, sch) == {}

\* CREATE TABLE IF NOT EXISTS weather_data: the rows of the table afterwards
CreateTableIfNotExists(R, sch) == IF TableName \in sch THEN R ELSE {}

\* a bulk load that skips the clearing DELETE
ClearNothing(R) == R

\* DELETE FROM weather_data: the rows of the table afterwards
ClearAll(R) == {}

\* a table declared INTEGER PRIMARY KEY without AUTOINCREMENT: ids continue
\* from the largest id among the rows present
LastIdOfRows(n, R) ==
    IF R = {} THEN 0 ELSE CHOOSE i \in {r.id : r \in R} : \A r \in R : r.id <= i

\* id INTEGER PRIMARY KEY AUTOINCREMENT: ids continue from the sqlite_sequence
\* entry n of the table, whatever rows R are present
LastId(n, R) == n

\* AUTOINCREMENT: one more than the largest id ever assigned
NextId(n) == n + 1

NewRow(id, city, temperature, humidity, pressure, wind_speed, description, timestamp) ==
    [id |-> id, city |-> city, temperature |-> temperature,
     humidity |-> humidity, pressure |-> pressure, wind_speed |-> wind_speed,
     description |-> description, timestamp |-> timestamp]

\* WHERE city = ? AND timestamp >= datetime('now', '-' || ? || ' days')
HistoricalWhere(r, city, days) ==
    /\ r.city = city
    /\ TextGeq(r.timestamp, Cutoff(days))

\* ORDER BY timestamp: every arrangement of S in which timestamps never
\* decrease (SQL leaves the order of equal keys open)
RECURSIVE OrderByTimestamp(_)
OrderByTimestamp(S) ==
    IF S = {} THEN {<<>>}
    ELSE UNION {
            {<<m>> \o rest : rest \in OrderByTimestamp(S \ {m})}
            : m \in {x \in S : \A y \in S : ~TextLess(y.timestamp, x.timestamp)} }

\* the text layouts present in a column of timestamp texts
Layouts(records) == {records[i].timestamp[4] : i \in 1..Len(records)}

\* pd.to_datetime on a column of timestamp texts.  pandas 2 infers one layout
\* from the first element and raises ValueError on an element of another
\* layout; pandas 1 parses each element on its own.
ToDatetimeRaises(records, version) ==
    version >= 2 /\ Cardinality(Layouts(records)) > 1

\* the Timestamp a text parses to
ToDatetime(text) ==
    [day |-> text[1], hour |-> text[2], minute |-> text[3], frac |-> text[4]]

ParseColumn(records) ==
    [i \in 1..Len(records) |->
        [records[i] EXCEPT !.timestamp = ToDatetime(records[i].timestamp)]]

\* the listing in descending order
RECURSIVE OrderByCityDesc(_)
OrderByCityDesc(S) ==
    IF S = {} THEN <<>>
    ELSE LET m == CHOOSE x \in S : \A y \in S : ~CityLess(x, y)
         IN  <<m>> \o OrderByCityDesc(S \ {m})

\* SELECT DISTINCT city ... ORDER BY city
RECURSIVE OrderByCity(_)
OrderByCity(S) ==
    IF S = {} THEN <<>>
    ELSE LET m == CHOOSE x \in S : \A y \in S : ~CityLess(y, x)
         IN  <<m>> \o OrderByCity(S \ {m})

DistinctCities(R) == {r.city : r \in R}

RECURSIVE SumOf(_, _)
SumOf(R, field) ==
    IF R = {} THEN 0
    ELSE LET r == CHOOSE x \in R : TRUE
         IN  r[field] + SumOf(R \ {r}, field)

MaxOf(R, field) == CHOOSE v \in {r[field] : r \in R} : \A r \in R : r[field] <= v
MinOf(R, field) == CHOOSE v \in {r[field] : r \in R} : \A r \in R : v <= r[field]

MaxText(T) == CHOOSE t \in T : \A u \in T : ~TextLess(t, u)
MinText(T) == CHOOSE t \in T : \A u \in T : ~TextLess(u, t)

\* s / n rounded to the nearest integer, halves to the even neighbour
RoundDiv(s, n) ==
    LET q == s \div n
        r == s - q * n
    IN  IF 2 * r < n THEN q
        ELSE IF 2 * r > n THEN q + 1
        ELSE IF q % 2 = 0 THEN q ELSE q + 1

\* `round(x, 1) if x else 0`; x is NULL for an aggregate over no rows
RoundOrZero(isNull, tenths) == IF isNull \/ tenths = 0 THEN 0 ELSE tenths

\* the single row an aggregate SELECT without GROUP BY always returns, turned
\* into the stats dict (decimals in tenths)
CityStats(R) ==
    LET n == Cardinality(R)
        null == (n = 0)
    IN  [total_records |-> n,
         avg_temperature |->
            RoundOrZero(null, IF null THEN 0 ELSE RoundDiv(SumOf(R, "temperature"), n)),
         max_temperature |->
            RoundOrZero(null, IF null THEN 0 ELSE MaxOf(R, "temperature")),
         min_temperature |->
            RoundOrZero(null, IF null THEN 0 ELSE MinOf(R, "temperature")),
         avg_humidity |->
            RoundOrZero(null, IF null THEN 0 ELSE RoundDiv(10 * SumOf(R, "humidity"), n)),
         avg_pressure |->
            RoundOrZero(null, IF null THEN 0 ELSE RoundDiv(10 * SumOf(R, "pressure"), n)),
         avg_wind_speed |->
            RoundOrZero(null, IF null THEN 0 ELSE RoundDiv(SumOf(R, "wind_speed"), n)),
         last_update |->
            IF null THEN None ELSE MaxText({r.timestamp : r \in R})]

\* `if result:` on the fetched row: a row is a non-empty tuple
RowIsTruthy(R) == TRUE

\* the comparison written with <= instead of <
DeleteWhereLeq(r, days_old) == ~TextLess(Cutoff(days_old), r.timestamp)

\* WHERE timestamp < datetime('now', '-' || ? || ' days')
DeleteWhere(r, days_old) == TextLess(r.timestamp, Cutoff(days_old))

-----------------------------------------------------------------------------
(* The bulk loader's loop, generate_sample_data.                           *)

\* records the loop would write: days x cities x records_per_day
LoopSize(days, records_per_day) == days * Len(cities) * records_per_day

\* position of the k-th iteration (k from 0) in the three nested loops
DayOfIter(k, records_per_day) == k \div (Len(cities) * records_per_day)
CityOfIter(k, records_per_day) == cities[((k \div records_per_day) % Len(cities)) + 1]
RecordOfIter(k, records_per_day) == k % records_per_day

\* temp_adjust of a slot, in tenths
SlotAdjust(record) ==
    IF record = 0 THEN 0 - 20
    ELSE IF record = 1 THEN 50
    ELSE 0 - 10

\* hour=8 + record * 6
SlotHour(record) == 8 + record * 6

\* datetime.replace raises ValueError unless hour is in 0..23
ReplaceRaises(record) == SlotHour(record) > 23

\* current_date = datetime.now() - timedelta(days=days-day-1), for a local
\* clock reading of t minutes
CurrentDate(t, days, day) == DateTime(t - (days - day - 1) * MinutesPerDay)

\* current_date.replace(hour=..., minute=...)
SpecificTime(t, days, day, record, minute) ==
    [CurrentDate(t, days, day) EXCEPT !.hour = SlotHour(record), !.minute = minute]

\* the row the k-th iteration inserts, given the local clock reading t and
\* the largest id assigned so far
SampleRow(k, days, records_per_day, seed, base, t) ==
    LET day == DayOfIter(k, records_per_day)
        city == CityOfIter(k, records_per_day)
        record == RecordOfIter(k, records_per_day)
        weather_data == get_mock_weather_data(city, DateTime(t),
                                              SeededDraw(city, DateTime(t), seed, k))
    IN  NewRow(NextId(base + k),
               weather_data.city,
               weather_data.temperature + SlotAdjust(record),
               weather_data.humidity,
               weather_data.pressure,
               weather_data.wind_speed,
               weather_data.description,
               AdaptDatetime(SpecificTime(t, days, day, record,
                                          SeededMinute(seed, k))))

\* The iteration at which the loop stops: the first one whose replace() or
\* whose insert raises (nothing catches either), or the loop size when every
\* iteration completes.  failInsert = j > 0 makes the j-th insert fail.
StopIter(days, records_per_day, failInsert) ==
    LET n == LoopSize(days, records_per_day)
        bad == {k \in 0..(n - 1) :
                    \/ ReplaceRaises(RecordOfIter(k, records_per_day))
                    \/ k + 1 = failInsert}
    IN  IF bad = {} THEN n
        ELSE CHOOSE k \in bad : \A j \in bad : k <= j

-----------------------------------------------------------------------------
(* Inputs explored.                                                        *)

Days == 0..MaxDays
RecordsPerDay == 0..MaxRecordsPerDay
\* the random draw sequences explored for a bulk load
Seeds == {0}

\* observations handed to insert_weather_data
InsertInputs ==
    { [city |-> "Paris", temperature |-> 215, humidity |-> 40,
       pressure |-> 1013, wind_speed |-> 35, description |-> "Clear"],
      [city |-> "Paris", temperature |-> 0 - 35, humidity |-> 90,
       pressure |-> 998, wind_speed |-> 120, description |-> "Snow"],
      [city |-> UnknownCity, temperature |-> 187, humidity |-> 55,
       pressure |-> 1009, wind_speed |-> 0, description |-> "Haze"] }

\* cities asked about: one that inserts and bulk loads both write, one that
\* only bulk loads write, one that only inserts write
QueryCities == {"Paris", "Tokyo", UnknownCity}

\* whether the database step of a call raises sqlite3.Error
Fail == IF faults THEN BOOLEAN ELSE {FALSE}

\* the insert of a bulk load that is made to fail: none (0) or the middle one
FailPoints(n) == IF faults THEN {0, (n + 1) \div 2} ELSE {0}

\* 12:00 UTC on the 15th of each month
MonthClocks == {(MonthStart[m] + 14) * MinutesPerDay + 12 * 60 : m \in 1..12}

-----------------------------------------------------------------------------
(* Operations.                                                             *)

\* What the database file holds when the process starts: nothing, or what
\* generate_sample_data(days=1, records_per_day=1) of an earlier run, half a
\* day before, left in it.
StoredBefore(zone) ==
    { [rows |-> {}, seq |-> 0],
      [rows |-> {SampleRow(k, 1, 1, 0, 0, StartClock - TickStep + zone) :
                    k \in 0..(LoopSize(1, 1) - 1)},
       seq |-> LoopSize(1, 1)] }

\* WeatherDatabase(): __init__ has run init_database on a database file that
\* was absent or already held the schema and rows of an earlier run.
Init ==
    /\ schema = {TableName, IndexName}
    /\ tz \in TZOffsets
    /\ faults = TRUE
    /\ \E file \in StoredBefore(tz) : rows = file.rows /\ seq = file.seq
    /\ clock = StartClock
    /\ calls = 0
    /\ ret = Result("init_database", <<>>, FALSE, "return", None, 0)
    /\ weather = <<>>

Tick ==
    /\ clock + TickStep <= StartClock + MaxTicks * TickStep
    /\ clock' = clock + TickStep
    /\ UNCHANGED <<schema, rows, seq, tz, faults, calls, ret, weather>>

\* CREATE TABLE IF NOT EXISTS / CREATE INDEX IF NOT EXISTS; no try block
init_database ==
    \E fail \in Fail :
        /\ IF fail
           THEN /\ UNCHANGED <<schema, rows>>
                /\ ret' = Result("init_database", <<>>, TRUE, "raise", None, 1)
           ELSE /\ schema' = schema \cup {TableName, IndexName}
                /\ rows' = CreateTableIfNotExists(rows, schema)
                /\ ret' = Result("init_database", <<>>, FALSE, "return", None, 0)
        /\ UNCHANGED <<seq, clock, tz, faults, calls, weather>>

insert_weather_data ==
    \E o \in InsertInputs, fail \in Fail :
        /\ calls < MaxCalls
        /\ calls' = calls + 1
        /\ IF fail
           THEN \* except: print, rollback
                /\ UNCHANGED <<rows, seq>>
                /\ ret' = Result("insert_weather_data", o, TRUE, "return", None, 0)
           ELSE /\ rows' = rows \cup
                    {NewRow(NextId(LastId(seq, rows)), o.city, o.temperature,
                            o.humidity, o.pressure, o.wind_speed, o.description,
                            SqlText(clock))}
                /\ seq' = NextId(LastId(seq, rows))
                /\ ret' = Result("insert_weather_data", o, FALSE, "return", None, 0)
        /\ UNCHANGED <<schema, clock, tz, faults, weather>>

get_historical_data ==
    \E city \in QueryCities, days \in Days, version \in PandasVersions,
       fail \in Fail :
        /\ IF fail
           THEN ret' = Result("get_historical_data", <<city, days>>, TRUE,
                              "return", EmptyFrame, 0)
           ELSE \E records \in OrderByTimestamp(
                                {r \in rows : HistoricalWhere(r, city, days)}) :
                    ret' = Result("get_historical_data", <<city, days>>, FALSE,
                                  "return",
                                  IF records # <<>> /\ ToDatetimeRaises(records, version)
                                  THEN EmptyFrame
                                  ELSE [columns |-> Columns,
                                        records |-> ParseColumn(records)],
                                  0)
        /\ UNCHANGED <<schema, rows, seq, clock, tz, faults, calls, weather>>

get_all_cities ==
    \E fail \in Fail :
        /\ ret' = Result("get_all_cities", <<>>, fail, "return",
                         IF fail THEN <<>> ELSE OrderByCity(DistinctCities(rows)),
                         0)
        /\ UNCHANGED <<schema, rows, seq, clock, tz, faults, calls, weather>>

get_city_statistics ==
    \E city \in QueryCities, fail \in Fail :
        /\ LET R == {r \in rows : r.city = city}
           IN  ret' = Result("get_city_statistics", <<city>>, fail, "return",
                             IF fail THEN EmptyDict
                             ELSE IF RowIsTruthy(R) THEN CityStats(R)
                             ELSE EmptyDict,
                             0)
        /\ UNCHANGED <<schema, rows, seq, clock, tz, faults, calls, weather>>

delete_old_data ==
    \E days_old \in Days, fail \in Fail :
        /\ IF fail
           THEN \* except: print, rollback, return 0
                /\ UNCHANGED rows
                /\ ret' = Result("delete_old_data", <<days_old>>, TRUE, "return", 0, 0)
           ELSE LET gone == {r \in rows : DeleteWhere(r, days_old)}
                IN  /\ rows' = rows \ gone
                    /\ ret' = Result("delete_old_data", <<days_old>>, FALSE,
                                     "return", Cardinality(gone), 0)
        /\ UNCHANGED <<schema, seq, clock, tz, faults, calls, weather>>

\* The whole call: the clearing DELETE, then the loop over days, cities and
\* slots, each iteration committing its own insert.  Neither the clearing step
\* nor _insert_with_timestamp has a try block.
generate_sample_data ==
    \E days \in Days, records_per_day \in RecordsPerDay, seed \in Seeds,
       failClear \in Fail :
      \E failInsert \in IF failClear THEN {0}
                         ELSE FailPoints(LoopSize(days, records_per_day)) :
        LET n == LoopSize(days, records_per_day)
            stop == StopIter(days, records_per_day, failInsert)
            args == [days |-> days, records_per_day |-> records_per_day,
                     failInsert |-> failInsert]
        IN  /\ calls < MaxCalls
            /\ calls' = calls + 1
            /\ IF failClear
               THEN /\ UNCHANGED <<rows, seq>>
                    /\ ret' = Result("generate_sample_data", args, TRUE,
                                     "raise", None, 1)
               ELSE /\ rows' = ClearAll(rows) \cup
                                {SampleRow(k, days, records_per_day, seed,
                                           LastId(seq, ClearAll(rows)), clock + tz) :
                                    k \in 0..(stop - 1)}
                    /\ seq' = LastId(seq, ClearAll(rows)) + stop
                    /\ ret' = IF stop = n
                              THEN Result("generate_sample_data", args, FALSE,
                                          "return", None, 0)
                              ELSE IF stop + 1 = failInsert
                                        /\ ~ReplaceRaises(RecordOfIter(stop, records_per_day))
                              THEN Result("generate_sample_data", args, TRUE,
                                          "raise", None, 1)
                              ELSE Result("generate_sample_data", args, FALSE,
                                          "raise", None, 0)
            /\ UNCHANGED <<schema, clock, tz, faults, weather>>

get_database_stats ==
    \E fail \in Fail :
        /\ ret' = Result("get_database_stats", <<>>, fail, "return",
                         IF fail THEN EmptyDict
                         ELSE [total_records |-> Cardinality(rows),
                               total_cities |-> Cardinality(DistinctCities(rows)),
                               date_range |->
                                  IF rows = {} THEN <<None, None>>
                                  ELSE <<MinText({r.timestamp : r \in rows}),
                                         MaxText({r.timestamp : r \in rows})>>],
                         0)
        /\ UNCHANGED <<schema, rows, seq, clock, tz, faults, calls, weather>>

\* WeatherAPI(use_mock=True).get_current_weather(city)
get_current_weather ==
    \E city \in AllCities :
      \E d \in DrawsFor(city, LocalNow) :
        /\ weather' = <<get_mock_weather_data(city, LocalNow, d)>>
        /\ UNCHANGED <<schema, rows, seq, clock, tz, faults, calls, ret>>

Next ==
    \/ Tick
    \/ init_database
    \/ insert_weather_data
    \/ get_historical_data
    \/ get_all_cities
    \/ get_city_statistics
    \/ delete_old_data
    \/ generate_sample_data
    \/ get_database_stats

Spec == Init /\ [][Next]_vars

\* The runs in which no statement on the database file raises.
InitStore ==
    /\ schema = {TableName, IndexName}
    /\ tz \in TZOffsets
    /\ faults = FALSE
    /\ \E file \in StoredBefore(tz) : rows = file.rows /\ seq = file.seq
    /\ clock = StartClock
    /\ calls = 0
    /\ ret = Result("init_database", <<>>, FALSE, "return", None, 0)
    /\ weather = <<>>

\* get_historical_data and get_city_statistics change nothing but ret, so the
\* tables reached without them are the tables reached with them.  The
\* operations that write, with the listing and the summary:
NextStore ==
    \/ Tick
    \/ init_database
    \/ insert_weather_data
    \/ get_all_cities
    \/ delete_old_data
    \/ generate_sample_data
    \/ get_database_stats

SpecStore == InitStore /\ [][NextStore]_vars

\* The synthesizer on its own, in every month of the year.
InitSynth ==
    /\ schema = {TableName, IndexName}
    /\ rows = {}
    /\ seq = 0
    /\ clock \in MonthClocks
    /\ tz \in TZOffsets
    /\ faults = FALSE
    /\ calls = 0
    /\ ret = Result("init_database", <<>>, FALSE, "return", None, 0)
    /\ weather = <<>>

NextSynth == get_current_weather

SpecSynth == InitSynth /\ [][NextSynth]_vars

\* a process whose local time is ten hours behind UTC (Pacific/Honolulu)
TZWest == {0 - 10 * 60}

\* The store run under UTC or under the western zone.
InitZones ==
    /\ schema = {TableName, IndexName}
    /\ tz \in TZOffsets \cup TZWest
    /\ faults = TRUE
    /\ \E file \in StoredBefore(tz) : rows = file.rows /\ seq = file.seq
    /\ clock = StartClock
    /\ calls = 0
    /\ ret = Result("init_database", <<>>, FALSE, "return", None, 0)
    /\ weather = <<>>

SpecZones == InitZones /\ [][Next]_vars

-----------------------------------------------------------------------------
(* Properties.                                                             *)
(*                                                                         *)
(* ret describes the last operation and every operation that changes rows  *)
(* sets ret, so while ret names a query, rows is the table the query read. *)
(* A step with ret'.op = o and clock' = clock is a call of operation o.    *)

\* the minute a timestamp text denotes
InstantOfText(text) == text[1] * MinutesPerDay + text[2] * 60 + text[3]

\* the minute a parsed Timestamp denotes
InstantOfStamp(ts) == ts.day * MinutesPerDay + ts.hour * 60 + ts.minute

\* a returned record is the stored row r
SameObservation(rec, r) ==
    /\ rec.id = r.id
    /\ rec.city = r.city
    /\ rec.temperature = r.temperature
    /\ rec.humidity = r.humidity
    /\ rec.pressure = r.pressure
    /\ rec.wind_speed = r.wind_speed
    /\ rec.description = r.description
    /\ InstantOfStamp(rec.timestamp) = InstantOfText(r.timestamp)
    /\ rec.timestamp.frac = r.timestamp[4]

\* C1: a get_historical_data(city, days) whose database step did not fail
\* returns exactly the stored rows of that city whose timestamp is not before
\* now - days, each once, in ascending order of timestamp.
C1_HistoricalExact ==
    (ret.op = "get_historical_data" /\ ~ret.failed) =>
        LET city == ret.args[1]
            days == ret.args[2]
            recs == ret.value.records
            expected == {r \in rows :
                            /\ r.city = city
                            /\ InstantOfText(r.timestamp) >= ret.at - days * MinutesPerDay}
        IN  /\ Len(recs) = Cardinality(expected)
            /\ \A r \in expected : \E i \in 1..Len(recs) : SameObservation(recs[i], r)
            /\ \A i, j \in 1..Len(recs) :
                    i < j =>
                        \/ InstantOfStamp(recs[i].timestamp) < InstantOfStamp(recs[j].timestamp)
                        \/ /\ InstantOfStamp(recs[i].timestamp) = InstantOfStamp(recs[j].timestamp)
                           /\ recs[i].timestamp.frac <= recs[j].timestamp.frac

\* the rows strictly older than now - days
StrictlyOlder(R, now, days) ==
    {r \in R : InstantOfText(r.timestamp) < now - days * MinutesPerDay}

\* C2: a delete_old_data(days) whose database step did not fail removes exactly
\* the rows strictly older than now - days, leaves every other row as it was
\* and returns the number removed; the same call repeated at once removes
\* nothing and returns 0.
C2_DeleteExact ==
    [][(ret'.op = "delete_old_data" /\ clock' = clock /\ ~ret'.failed) =>
          LET old == StrictlyOlder(rows, clock, ret'.args[1])
          IN  /\ rows' = rows \ old
              /\ ret'.value = Cardinality(old)
              /\ (ret.op = "delete_old_data" /\ ~ret.failed /\ ret.at = clock
                    /\ ret.args = ret'.args)
                 => (ret'.value = 0 /\ rows' = rows)]_vars

\* a delete removed some rows and kept others
C2_Witness ==
    /\ ret.op = "delete_old_data"
    /\ ~ret.failed
    /\ ret.value > 0
    /\ rows # {}

\* C3: when generate_sample_data(days, records_per_day) returns, the table
\* holds exactly days x 7 x records_per_day rows, none of which was there
\* before the call (every id is new); a get_database_stats that follows reports
\* that many records, and 7 cities when the number is not 0.
C3_PopulateReplaces ==
    [][/\ (ret'.op = "generate_sample_data" /\ clock' = clock /\ ret'.outcome = "return")
          => /\ Cardinality(rows') = ret'.args.days * 7 * ret'.args.records_per_day
             /\ rows' \cap rows = {}
             /\ \A r \in rows' : r.id > seq /\ \A q \in rows : q.id # r.id
       /\ (ret.op = "generate_sample_data" /\ ret.outcome = "return"
            /\ ret'.op = "get_database_stats" /\ ~ret'.failed)
          => /\ ret'.value.total_records = ret.args.days * 7 * ret.args.records_per_day
             /\ ret'.value.total_cities =
                    IF ret.args.days * ret.args.records_per_day = 0 THEN 0 ELSE 7]_vars

\* a bulk load of one day with three slots returned, on a database that had
\* handed out ids before
C3_Witness ==
    /\ ret.op = "generate_sample_data"
    /\ ret.outcome = "return"
    /\ ret.args.days = 1
    /\ ret.args.records_per_day = 3
    /\ Cardinality(rows) = 21
    /\ seq > 21

\* C4: get_city_statistics for a city without rows returns the empty result.
C4_EmptyCityNoStats ==
    (/\ ret.op = "get_city_statistics"
     /\ ~ret.failed
     /\ \A r \in rows : r.city # ret.args[1])
        => ret.value = EmptyDict

\* dictionary order of the city names
Alphabetical ==
    <<"Atlantis", "Berlin", "London", "Mumbai", "New York", "Paris", "Sydney", "Tokyo">>

AlphaRank(c) == CHOOSE i \in 1..Len(Alphabetical) : Alphabetical[i] = c

\* C5: a get_all_cities whose database step did not fail returns exactly the
\* cities that have a row, each once, in ascending alphabetical order.
C5_CitiesSortedDistinct ==
    (ret.op = "get_all_cities" /\ ~ret.failed) =>
        /\ {ret.value[i] : i \in 1..Len(ret.value)} = {r.city : r \in rows}
        /\ \A i, j \in 1..Len(ret.value) :
                i < j => AlphaRank(ret.value[i]) < AlphaRank(ret.value[j])

\* the listing holds several cities and the table received a city that sorts
\* later before one that sorts earlier
C5_Witness ==
    /\ ret.op = "get_all_cities"
    /\ ~ret.failed
    /\ Len(ret.value) >= 2
    /\ \E r, q \in rows : r.id < q.id /\ AlphaRank(q.city) < AlphaRank(r.city)

\* C6: when the database step of insert_weather_data, delete_old_data or
\* get_historical_data fails, the rows stay as they were and the call raises.
C6_FailureSurfaces ==
    [][(/\ ret'.op \in {"insert_weather_data", "delete_old_data", "get_historical_data"}
        /\ clock' = clock
        /\ ret'.failed)
          => (rows' = rows /\ ret'.outcome = "raise")]_vars

\* C7: when one insert of generate_sample_data fails (and nothing else goes
\* wrong), every other record of the loop is stored.
C7_LoadContinues ==
    (/\ ret.op = "generate_sample_data"
     /\ ret.args.failInsert > 0
     /\ ret.args.records_per_day <= 3)
        => Cardinality(rows) = ret.args.days * 7 * ret.args.records_per_day - 1

\* C8: after an insert_weather_data that succeeded, a get_historical_data of
\* the same city whose window reaches back to the insertion returns a record
\* with the six inserted values and the insertion time.
C8_RoundTrip ==
    [][(/\ ret.op = "insert_weather_data"
        /\ ~ret.failed
        /\ ret'.op = "get_historical_data"
        /\ ~ret'.failed
        /\ ret'.args[1] = ret.args.city
        /\ ret'.at - ret'.args[2] * MinutesPerDay <= ret.at)
          => \E i \in 1..Len(ret'.value.records) :
                LET rec == ret'.value.records[i]
                IN  /\ rec.city = ret.args.city
                    /\ rec.temperature = ret.args.temperature
                    /\ rec.humidity = ret.args.humidity
                    /\ rec.pressure = ret.args.pressure
                    /\ rec.wind_speed = ret.args.wind_speed
                    /\ rec.description = ret.args.description
                    /\ InstantOfStamp(rec.timestamp) = ret.at]_vars

\* C9: a call of init_database leaves the rows as they were.
C9_InitKeepsRows ==
    [][(ret'.op = "init_database" /\ clock' = clock) => rows' = rows]_vars

\* init_database was called again, and succeeded, on a table that holds a row
\* added since the construction
C9_Witness ==
    /\ ret.op = "init_database"
    /\ ~ret.failed
    /\ calls > 0
    /\ \E r \in rows : r.id = seq

\* C10: every observation the synthesizer hands out has a humidity within
\* 0..100 and one of the six descriptions.
C10_SynthRanges ==
    \A i \in 1..Len(weather) :
        /\ weather[i].humidity \in 0..100
        /\ weather[i].description \in
              {"Clear", "Cloudy", "Rain", "Snow", "Fog", "Thunderstorm"}


\* C11: whatever operation ran last, and however it ended, it left none of
\* the connections it opened unclosed.
C11_ConnectionsClosed ==
    ret.conns = 0

\* C12: ids are unique and only grow.  seq is the largest id assigned so far,
\* to rows present, deleted or cleared alike: it never decreases and no row
\* has an id above it, so a row added by a step with an id above seq has an id
\* above every id assigned before, and no two rows share an id.
C12_IdsNeverReused ==
    [][/\ \A r \in rows' \ rows : r.id > seq /\ \A q \in rows : r.id > q.id
       /\ seq' >= seq
       /\ \A r \in rows' : r.id <= seq'
       /\ \A r, q \in rows' : r.id = q.id => r = q]_vars

\* a row was added after rows with smaller ids had been deleted or cleared
C12_Witness ==
    /\ ret.op \in {"insert_weather_data", "generate_sample_data"}
    /\ ~ret.failed
    /\ calls > 0
    /\ \E r \in rows : r.id = seq
    /\ \E i \in 1..seq : \A r \in rows : r.id # i

\* the adjustment, in tenths, and the hours of the day that C13 gives a slot
ClaimedAdjust(record) ==
    IF record = 0 THEN 0 - 20
    ELSE IF record = 1 THEN 50
    ELSE IF record = 2 THEN 0 - 10
    ELSE 0

ClaimedHours(record) == IF record <= 2 THEN {8 + 6 * record} ELSE 0..23

\* C13: a generate_sample_data(days, records_per_day) with records_per_day >= 1
\* in which no database step fails returns, and for every (day, city, slot) of
\* its loop the table then holds a row of that city, on that day, at the
\* slot's hour, whose temperature is the synthesized one plus the slot's
\* adjustment.
C13_EverySlotStored ==
    [][(/\ ret'.op = "generate_sample_data"
        /\ clock' = clock
        /\ ~ret'.failed
        /\ ret'.args.failInsert = 0
        /\ ret'.args.records_per_day >= 1)
          => LET days == ret'.args.days
                 records_per_day == ret'.args.records_per_day
                 now == DateTime(clock + tz)
             IN  /\ ret'.outcome = "return"
                 /\ \A k \in 0..(LoopSize(days, records_per_day) - 1) :
                      LET record == RecordOfIter(k, records_per_day)
                          city == CityOfIter(k, records_per_day)
                          day == now.day - (days - DayOfIter(k, records_per_day) - 1)
                      IN  \E r \in rows', seed \in Seeds :
                            /\ r.city = city
                            /\ r.timestamp[1] = day
                            /\ r.timestamp[2] \in ClaimedHours(record)
                            /\ r.temperature =
                                  get_mock_weather_data(city, now,
                                      SeededDraw(city, now, seed, k)).temperature
                                  + ClaimedAdjust(record)]_vars

\* C14: the rows written by a generate_sample_data(days, records_per_day) that
\* returned, with records_per_day in 1..3, all lie in the window of the last
\* `days` days: none is before now - days, a delete_old_data(days) called at
\* once removes nothing, and a get_historical_data(c, days) called at once for
\* one of the seven cities returns days x records_per_day records.
C14_LoadInsideWindow ==
    [][/\ (/\ ret'.op = "generate_sample_data"
            /\ clock' = clock
            /\ ret'.outcome = "return"
            /\ ret'.args.records_per_day \in 1..3)
           => \A r \in rows' :
                InstantOfText(r.timestamp) >= clock - ret'.args.days * MinutesPerDay
       /\ (/\ ret.op = "generate_sample_data"
            /\ ret.outcome = "return"
            /\ ret.args.records_per_day \in 1..3
            /\ ret.at = clock
            /\ clock' = clock)
           => /\ (/\ ret'.op = "delete_old_data"
                   /\ ~ret'.failed
                   /\ ret'.args[1] = ret.args.days)
                  => (ret'.value = 0 /\ rows' = rows)
              /\ (/\ ret'.op = "get_historical_data"
                   /\ ~ret'.failed
                   /\ ret'.args[1] \in CitySet
                   /\ ret'.args[2] = ret.args.days)
                  => Len(ret'.value.records) =
                        ret.args.days * ret.args.records_per_day]_vars

====
